---- MODULE Spec2Model ----
(***************************************************************************)
(* Model of pywrong (src/main.rs): a static analysis that flags dictionary *)
(* subscripts, and calls to functions that may raise KeyError, which no    *)
(* enclosing try/except would catch.                                       *)
(*                                                                         *)
(* The syntax tree comes from tree-sitter.  It is modelled as a sequence   *)
(* of nodes numbered in pre-order (node 1 is the root), each with its      *)
(* parent, its children, its kind, its start line and the text of the one  *)
(* field the analysis reads (a function definition's name, a call's        *)
(* function, an except clause's type).  Nodes of kinds the analysis never  *)
(* tests are elided, except "block", which stands for the clauses of a try *)
(* statement that are no except clauses.                                   *)
(***************************************************************************)
EXTENDS Integers, Sequences, FiniteSets

(***************************************************************************)
(* Bounds of the model.                                                    *)
(***************************************************************************)
\* Largest number of nodes of an exhaustively enumerated tree.
MaxNodes == 4
\* Largest number of functions of a call-chain tree (see ChainPrefixes).
MaxChain == 3
\* The pass counter stops counting here (it only observes the loop).
PassCap == 5
\* Number of file paths on the command line.
MaxFiles == 2

(***************************************************************************)
(* Program constants.                                                      *)
(***************************************************************************)
\* The key of the module-level pseudo function.
ModuleName == "<module>"
\* The one label determine_exceptions ever inserts.
KeyErrorLabel == "KeyError"
\* An except clause without a type field (a bare except).
NoType == ""
\* A function definition without a name field.
NoName == ""

(***************************************************************************)
(* Syntax trees.                                                           *)
(***************************************************************************)
Names == {"f", "g"}
ExceptTypes == {NoType, "KeyError", "Exception", "ValueError"}

MkNode(p, k, x, l) ==
    [parent |-> p, kind |-> k, text |-> x, line |-> l, children |-> << >>]

RootOnly == << MkNode(0, "module", "", 1) >>

\* The kinds (with their text) a node can have.
NodeLabels ==
    { [kind |-> "function_definition", text |-> x] : x \in Names }
    \cup { [kind |-> "call", text |-> x] : x \in Names }
    \cup { [kind |-> "subscript", text |-> ""],
           [kind |-> "try_statement", text |-> ""],
           [kind |-> "block", text |-> ""] }
    \cup { [kind |-> "except_clause", text |-> x] : x \in ExceptTypes }

\* An except clause is a child of its try statement; "block" stands here for
\* the other clauses of a try statement (else, finally).
CanBeChildOf(k, pk) ==
    k \in {"except_clause", "block"} => pk = "try_statement"

\* call and subscript nodes are kept as leaves: the traversals treat every
\* node alike, so what hangs below them could as well hang beside them.
CanNest(k) == k \notin {"call", "subscript"}

RECURSIVE AncestorsOrSelf(_, _)
AncestorsOrSelf(t, n) ==
    IF n = 0 THEN {} ELSE {n} \cup AncestorsOrSelf(t, t[n].parent)

\* Start lines grow in pre-order; two expressions that follow each other
\* under the same parent may share a line.
LineChoices(t, p, k) ==
    LET last == t[Len(t)]
    IN  { last.line + 1 }
        \cup ( IF /\ k \in {"call", "subscript"}
                  /\ last.kind \in {"call", "subscript"}
                  /\ last.parent = p
               THEN { last.line }
               ELSE {} )

\* node can follow the nodes of t in pre-order.
CanAppend(t, node) ==
    /\ node.parent \in AncestorsOrSelf(t, Len(t))
    /\ CanNest(t[node.parent].kind)
    /\ CanBeChildOf(node.kind, t[node.parent].kind)
    /\ node.line \in LineChoices(t, node.parent, node.kind)

RECURSIVE TreesOfSize(_)
TreesOfSize(k) ==
    IF k = 1 THEN { RootOnly }
    ELSE LET nodes == { MkNode(p, c.kind, c.text, l) :
                          p \in 1..(k - 1), c \in NodeLabels, l \in 2..k }
         IN  { Append(x[1], x[2]) :
                 x \in { y \in TreesOfSize(k - 1) \X nodes :
                           CanAppend(y[1], y[2]) } }

\* t with the children of every node filled in from the parent links.
WithChildren(t) ==
    LET ids == [i \in 1..Len(t) |-> i]
    IN  [n \in 1..Len(t) |->
            [t[n] EXCEPT !.children =
                SelectSeq(ids, LAMBDA i : t[i].parent = n)]]

\* The sizes of the exhaustively enumerated trees.
TreeSizes == 1..MaxNodes

(***************************************************************************)
(* Call chains: function 1 holds a subscript, function i + 1 holds a call  *)
(* to function i; each of these statements stands alone or in the body of  *)
(* a try statement with one except clause.  Function 1 may also end with   *)
(* a call to the last function, which closes the chain into a cycle.  All  *)
(* definitions are at the top level, each node on a line of its own.       *)
(***************************************************************************)
ChainNames == << "get", "caller", "main", "entry", "top" >>
NoGuard == "none"
AccessGuards == {NoGuard} \cup ExceptTypes
CallGuards == {NoGuard, "KeyError"}

\* The nodes of function i of a chain of k functions, the first of them
\* numbered d and the line before it being l; g guards its statement.
ChainFunction(i, k, g, cyclic, d, l) ==
    LET def == MkNode(1, "function_definition", ChainNames[i], l + 1)
        stmt(p, ln) == IF i = 1 THEN MkNode(p, "subscript", "", ln)
                       ELSE MkNode(p, "call", ChainNames[i - 1], ln)
        body == IF g = NoGuard
                THEN << stmt(d, l + 2) >>
                ELSE << MkNode(d, "try_statement", "", l + 2),
                        stmt(d + 1, l + 3),
                        MkNode(d + 1, "except_clause", g, l + 4) >>
        back == IF i = 1 /\ cyclic
                THEN << MkNode(d, "call", ChainNames[k], l + 2 + Len(body)) >>
                ELSE << >>
    IN  << def >> \o body \o back

RECURSIVE ChainPrefixes(_, _, _)
ChainPrefixes(i, k, cyclic) ==
    IF i = 0 THEN { RootOnly }
    ELSE UNION { { t \o ChainFunction(i, k, g, cyclic, Len(t) + 1,
                                      t[Len(t)].line) :
                     g \in IF i = 1 THEN AccessGuards ELSE CallGuards } :
                 t \in ChainPrefixes(i - 1, k, cyclic) }

ChainLengths == 2..MaxChain

(***************************************************************************)
(* Statements in the other clauses of a try statement: get holds a bare    *)
(* subscript; caller holds a try statement with one except clause, and a   *)
(* subscript and a call of get stand either in the body of that except     *)
(* clause or in a further clause of the try statement (else, finally).     *)
(***************************************************************************)
ClausePlaces == { "handler", "else" }

ClauseTree(place, x) ==
    LET head == RootOnly \o ChainFunction(1, 1, NoGuard, FALSE, 2, 1)
                \o << MkNode(1, "function_definition", ChainNames[2], 4),
                      MkNode(4, "try_statement", "", 5),
                      MkNode(5, "except_clause", x, 6) >>
    IN  IF place = "handler"
        THEN head \o << MkNode(6, "subscript", "", 7),
                        MkNode(6, "call", ChainNames[1], 8) >>
        ELSE head \o << MkNode(5, "block", "", 7),
                        MkNode(7, "subscript", "", 8),
                        MkNode(7, "call", ChainNames[1], 9) >>

(***************************************************************************)
(* Tree access, as the tree-sitter cursor gives it.                        *)
(***************************************************************************)
\* goto_first_child / goto_next_sibling: the children of n, in order.
Children(t, n) == t[n].children

\* start_position().row + 1
LineNumber(t, n) == t[n].line

(***************************************************************************)
(* The function table: name -> FunctionInfo.                               *)
(***************************************************************************)
EmptyTable == [x \in {} |-> 0]

FunctionInfo(n) ==
    [node |-> n, may_raise |-> {}, reported_in_function |-> FALSE]

\* An insert that leaves a key already present as it is.
InsertIfAbsent(m, k, v) ==
    [x \in DOMAIN m \cup {k} |-> IF x \in DOMAIN m THEN m[x] ELSE v]

\* HashMap::insert: a key already present is overwritten.
Insert(m, k, v) == [x \in DOMAIN m \cup {k} |-> IF x = k THEN v ELSE m[x]]

RECURSIVE collect_functions(_, _, _), collect_functions_children(_, _, _, _)
collect_functions(t, node, functions) ==
    LET here == IF t[node].kind = "function_definition"
                THEN Insert(functions, t[node].text, FunctionInfo(node))
                ELSE functions
    IN  collect_functions_children(t, Children(t, node), 1, here)

collect_functions_children(t, kids, i, functions) ==
    IF i > Len(kids) THEN functions
    ELSE collect_functions_children(t, kids, i + 1,
                                    collect_functions(t, kids[i], functions))

\* analyze_file, up to the call of determine_exceptions.
BuildIndex(t) ==
    Insert(collect_functions(t, 1, EmptyTable), ModuleName, FunctionInfo(1))

(***************************************************************************)
(* The guard check.                                                        *)
(***************************************************************************)
\* A check that does not take "Exception" for a guard.
ClauseCatchesKeyErrorOnly(x) == x = NoType \/ x = "KeyError"

\* An except clause with this type text (NoType: no type field) guards.
ClauseCatches(x) == x = NoType \/ x = "KeyError" \/ x = "Exception"

RECURSIVE HasCatchingClause(_, _, _)
HasCatchingClause(t, kids, i) ==
    IF i > Len(kids) THEN FALSE
    ELSE IF t[kids[i]].kind = "except_clause" /\ ClauseCatches(t[kids[i]].text)
         THEN TRUE
         ELSE HasCatchingClause(t, kids, i + 1)

\* A check that looks at the node itself and never climbs to its parents.
NodeIsCatchingTry(t, current_node) ==
    /\ t[current_node].kind = "try_statement"
    /\ HasCatchingClause(t, Children(t, current_node), 1)

\* A check that takes a try statement for a guard only of the statements
\* of its body, not of those in its except clauses or its other clauses.
RECURSIVE WithinTryBody(_, _, _)
WithinTryBody(t, came_from, current_node) ==
    IF /\ t[current_node].kind = "try_statement"
       /\ HasCatchingClause(t, Children(t, current_node), 1)
       /\ \/ came_from = 0
          \/ t[came_from].kind \notin {"except_clause", "block"}
    THEN TRUE
    ELSE IF t[current_node].parent # 0
         THEN WithinTryBody(t, current_node, t[current_node].parent)
         ELSE FALSE

IsWithinTryBodyOnly(t, current_node) == WithinTryBody(t, 0, current_node)

RECURSIVE is_within_keyerror_try_except(_, _)
is_within_keyerror_try_except(t, current_node) ==
    IF /\ t[current_node].kind = "try_statement"
       /\ HasCatchingClause(t, Children(t, current_node), 1)
    THEN TRUE
    ELSE IF t[current_node].parent # 0
         THEN is_within_keyerror_try_except(t, t[current_node].parent)
         ELSE FALSE

(***************************************************************************)
(* The two collecting traversals, both in pre-order.                       *)
(***************************************************************************)
RECURSIVE find_unguarded_dict_accesses(_, _, _),
          find_unguarded_dict_accesses_children(_, _, _, _)
find_unguarded_dict_accesses(t, node, accesses) ==
    LET here == IF /\ t[node].kind = "subscript"
                   /\ ~is_within_keyerror_try_except(t, node)
                THEN Append(accesses, node)
                ELSE accesses
    IN  find_unguarded_dict_accesses_children(t, Children(t, node), 1, here)

\* A child loop that stays out of the function definitions nested in the
\* body it walks.
RECURSIVE AccessesOutsideNestedDefinitions(_, _, _, _)
AccessesOutsideNestedDefinitions(t, kids, i, accesses) ==
    IF i > Len(kids) THEN accesses
    ELSE AccessesOutsideNestedDefinitions(t, kids, i + 1,
             IF t[kids[i]].kind = "function_definition"
             THEN accesses
             ELSE find_unguarded_dict_accesses(t, kids[i], accesses))

find_unguarded_dict_accesses_children(t, kids, i, accesses) ==
    IF i > Len(kids) THEN accesses
    ELSE find_unguarded_dict_accesses_children(t, kids, i + 1,
             find_unguarded_dict_accesses(t, kids[i], accesses))

FunctionCall(x, n) == [name |-> x, node |-> n]

RECURSIVE collect_function_calls(_, _, _),
          collect_function_calls_children(_, _, _, _)
collect_function_calls(t, node, calls) ==
    LET here == IF t[node].kind = "call"
                THEN Append(calls, FunctionCall(t[node].text, node))
                ELSE calls
    IN  collect_function_calls_children(t, Children(t, node), 1, here)

collect_function_calls_children(t, kids, i, calls) ==
    IF i > Len(kids) THEN calls
    ELSE collect_function_calls_children(t, kids, i + 1,
             collect_function_calls(t, kids[i], calls))

(***************************************************************************)
(* determine_exceptions: one visit of one function.                        *)
(***************************************************************************)
\* new_exceptions without the part inherited from the callees.
NewExceptionsLocalOnly(t, functions, func_name) ==
    IF find_unguarded_dict_accesses(t, functions[func_name].node, << >>) # << >>
    THEN { KeyErrorLabel }
    ELSE {}

\* new_exceptions that takes a callee's labels through every call site,
\* guarded or not.
NewExceptionsFromAnyCall(t, functions, unguarded_accesses, calls) ==
    LET local ==
            IF \E i \in 1..Len(unguarded_accesses) :
                  ~is_within_keyerror_try_except(t, unguarded_accesses[i])
            THEN { KeyErrorLabel }
            ELSE {}
        inherited(call) ==
            IF call.name \in DOMAIN functions
            THEN functions[call.name].may_raise
            ELSE {}
    IN  local \cup UNION { inherited(calls[i]) : i \in 1..Len(calls) }

\* new_exceptions, given what the two traversals of the function's body
\* have collected (lines 164-168 and 173-182).
NewExceptionsFrom(t, functions, unguarded_accesses, calls) ==
    LET local ==
            IF \E i \in 1..Len(unguarded_accesses) :
                  ~is_within_keyerror_try_except(t, unguarded_accesses[i])
            THEN { KeyErrorLabel }
            ELSE {}
        inherited(call) ==
            IF /\ call.name \in DOMAIN functions
               /\ functions[call.name].may_raise # {}
               /\ ~is_within_keyerror_try_except(t, call.node)
            THEN functions[call.name].may_raise
            ELSE {}
    IN  local \cup UNION { inherited(calls[i]) : i \in 1..Len(calls) }

\* new_exceptions of lines 156-182, read off the table as it stands.  Each
\* traversal runs once and its result is then held as a value.
NewExceptions(t, functions, func_name) ==
    UNION { NewExceptionsFrom(t, functions, unguarded_accesses, calls) :
              unguarded_accesses \in
                  { find_unguarded_dict_accesses(t, functions[func_name].node,
                                                 << >>) },
              calls \in
                  { collect_function_calls(t, functions[func_name].node,
                                           << >>) } }

\* A test that takes every non-empty result for progress.
HasNewWheneverFound(new_exceptions, may_raise) == new_exceptions # {}

\* The test of line 189.
HasNew(new_exceptions, may_raise) == ~(new_exceptions \subseteq may_raise)

\* An update that keeps only the labels found for the first time.
UpdateMayRaiseOnlyNew(may_raise, new_exceptions) == new_exceptions \ may_raise

\* Lines 189-192: the set after the visit.
UpdateMayRaise(may_raise, new_exceptions) ==
    IF HasNew(new_exceptions, may_raise)
    THEN may_raise \cup new_exceptions
    ELSE may_raise

\* A loop that stops after its first pass.
LoopOnce(flag) == FALSE

\* A loop that goes round again only while nothing has changed.
LoopWhileUnchanged(flag) == ~flag

\* The loop condition of line 153, at the end of a pass.
LoopAgain(flag) == flag

(***************************************************************************)
(* analyze_function.                                                       *)
(***************************************************************************)
LocalWarning(l, fn) ==
    [msg |-> "local", line |-> l, labels |-> { KeyErrorLabel },
     callee |-> "", function |-> fn]

CallWarning(l, labs, cal, fn) ==
    [msg |-> "call", line |-> l, labels |-> labs,
     callee |-> cal, function |-> fn]

\* A reporter that prints local warnings for the module entry too.
PrintsLocalAlways(function_name) == TRUE

\* The condition of line 217 under which a local warning is printed.
PrintsLocal(function_name) == function_name # ModuleName

\* The nearest function definition around n (0: none).
RECURSIVE EnclosingDefinition(_, _)
EnclosingDefinition(t, n) ==
    IF n = 0 THEN 0
    ELSE IF t[n].kind = "function_definition" THEN n
         ELSE EnclosingDefinition(t, t[n].parent)

\* A report loop that prints an access only for the function whose
\* definition is the nearest one around it.
RECURSIVE ReportAccessesOfInnermost(_, _, _, _, _)
ReportAccessesOfInnermost(t, function_name, accesses, i, out) ==
    IF i > Len(accesses) THEN out
    ELSE ReportAccessesOfInnermost(t, function_name, accesses, i + 1,
             IF /\ ~is_within_keyerror_try_except(t, accesses[i])
                /\ PrintsLocal(function_name)
                /\ EnclosingDefinition(t, accesses[i]) # 0
                /\ t[EnclosingDefinition(t, accesses[i])].text = function_name
             THEN Append(out, LocalWarning(LineNumber(t, accesses[i]),
                                           function_name))
             ELSE out)

\* A report loop that prints a line for a function once and skips the
\* accesses that would repeat it.
RECURSIVE ReportAccessesOncePerLine(_, _, _, _, _)
ReportAccessesOncePerLine(t, function_name, accesses, i, out) ==
    IF i > Len(accesses) THEN out
    ELSE ReportAccessesOncePerLine(t, function_name, accesses, i + 1,
             IF /\ ~is_within_keyerror_try_except(t, accesses[i])
                /\ PrintsLocal(function_name)
                /\ \A j \in 1..Len(out) :
                      out[j] # LocalWarning(LineNumber(t, accesses[i]),
                                            function_name)
             THEN Append(out, LocalWarning(LineNumber(t, accesses[i]),
                                           function_name))
             ELSE out)

\* Lines 214-227: the warnings printed for the collected accesses.
RECURSIVE ReportAccesses(_, _, _, _, _)
ReportAccesses(t, function_name, accesses, i, out) ==
    IF i > Len(accesses) THEN out
    ELSE ReportAccesses(t, function_name, accesses, i + 1,
             IF /\ ~is_within_keyerror_try_except(t, accesses[i])
                /\ PrintsLocal(function_name)
             THEN Append(out, LocalWarning(LineNumber(t, accesses[i]),
                                           function_name))
             ELSE out)

\* A test that forgets the keys of the warnings already printed.
SuppressedByFlagOnly(key, reported, called_func) ==
    called_func.reported_in_function

\* The suppression test of line 245.
Suppressed(key, reported, called_func) ==
    key \in reported \/ called_func.reported_in_function

\* Lines 237-263: st = [reported_calls, out], carried through the loop.
RECURSIVE ReportCalls(_, _, _, _, _, _)
ReportCalls(t, functions, function_name, calls, i, st) ==
    IF i > Len(calls) THEN st
    ELSE LET call == calls[i]
             key == << LineNumber(t, call.node), call.name >>
             emits ==
                 /\ call.name \in DOMAIN functions
                 /\ functions[call.name].may_raise # {}
                 /\ ~is_within_keyerror_try_except(t, call.node)
                 /\ ~Suppressed(key, st.reported_calls, functions[call.name])
         IN  ReportCalls(t, functions, function_name, calls, i + 1,
                 IF emits
                 THEN [reported_calls |-> st.reported_calls \cup { key },
                       out |-> Append(st.out,
                                  CallWarning(key[1],
                                      functions[call.name].may_raise,
                                      call.name, function_name))]
                 ELSE st)

\* The whole of analyze_function: the table, the dedup set and the output
\* after it has run for function_name.
analyze_function(t, function_name, functions, reported, out) ==
    LET func_info == functions[function_name]
        unguarded_accesses ==
            find_unguarded_dict_accesses(t, func_info.node, << >>)
        out1 == IF unguarded_accesses # << >>
                THEN ReportAccesses(t, function_name, unguarded_accesses, 1, out)
                ELSE out
        functions1 ==
            IF unguarded_accesses # << >>
            THEN [functions EXCEPT ![function_name].reported_in_function = TRUE]
            ELSE functions
        calls == collect_function_calls(t, func_info.node, << >>)
        st == ReportCalls(t, functions1, function_name, calls, 1,
                          [reported_calls |-> reported, out |-> out1])
    IN  [functions |-> functions1,
         reported_calls |-> st.reported_calls,
         out |-> st.out]

\* A set of call keys that lives on from one file's analysis to the next.
KeptCallKeys(left_over) == left_over

\* Line 62: reported_calls is a local of analyze_file, made anew for every
\* file and gone when analyze_file returns; whatever the analysis of an
\* earlier file left over is not in it.
NewCallKeys(left_over) == {}

\* Line 95: collect_functions visits every node of the tree and unwraps
\* the name field of every function definition it meets.
NameUnwrapPanics(t) ==
    \E n \in 1..Len(t) :
        t[n].kind = "function_definition" /\ t[n].text = NoName

(***************************************************************************)
(* The state of main and of the analysis of the file it is at.             *)
(***************************************************************************)
VARIABLES
    tree,            \* the syntax tree of the file
    functions,       \* the function table
    function_names,  \* the order in which the table's keys are iterated
    pc,              \* "start", "determine", "report", "done" (analyze_file
                     \* has returned), "exit" (main has returned) or
                     \* "panicked" (an unwrap has ended the process)
    idx,             \* position of the running for loop in function_names
    changed,         \* the flag of determine_exceptions
    passes,          \* passes of the while loop begun in this invocation
    runs,            \* invocations of determine_exceptions begun
    before,          \* the table when the current invocation began
    reported_calls,  \* the (line, callee) keys of the call warnings printed
    output,          \* the warnings printed for the file, in order
    file             \* position of main's loop in the file paths

vars == << tree, functions, function_names, pc, idx, changed, passes, runs,
           before, reported_calls, output, file >>

\* The orders in which a HashMap with the keys S may iterate.
Orders(S) ==
    { s \in [1..Cardinality(S) -> S] :
        \A i, j \in 1..Cardinality(S) : i # j => s[i] # s[j] }

\* main has an argument left to process; nothing of it has been read.
Init ==
    /\ tree = << >>
    /\ functions = EmptyTable
    /\ function_names = << >>
    /\ pc = "start"
    /\ idx = 1
    /\ changed = FALSE
    /\ passes = 0
    /\ runs = 0
    /\ before = EmptyTable
    /\ reported_calls = {}
    /\ output = << >>
    /\ file = 1

\* analyze_file up to the first pass of determine_exceptions (lines 42-59
\* and 151-154): the file parses to some tree, the table is built from it,
\* and the order in which the HashMap yields its keys is whatever it is.
ParseAndIndex ==
    /\ pc = "start"
    /\ \/ \E k \in TreeSizes : \E t \in TreesOfSize(k) :
              tree' = WithChildren(t)
       \/ \E k \in ChainLengths, cyclic \in BOOLEAN :
              \E t \in ChainPrefixes(k, k, cyclic) : tree' = WithChildren(t)
       \/ \E place \in ClausePlaces, x \in ExceptTypes :
              tree' = WithChildren(ClauseTree(place, x))
    /\ ~NameUnwrapPanics(tree')
    /\ functions' = BuildIndex(tree')
    /\ before' = functions'
    /\ function_names' \in Orders(DOMAIN functions')
    /\ pc' = "determine"
    /\ idx' = 1
    /\ changed' = FALSE
    /\ passes' = 1
    /\ runs' = 1
    /\ UNCHANGED << reported_calls, output, file >>

\* One turn of the for loop of determine_exceptions (lines 155-194).
DetermineStep ==
    /\ pc = "determine"
    /\ idx <= Len(function_names)
    /\ \E new_exceptions \in
             { NewExceptions(tree, functions, function_names[idx]) } :
          LET func_name == function_names[idx]
              old == functions[func_name].may_raise
          IN  /\ functions' = [functions EXCEPT ![func_name].may_raise =
                                   UpdateMayRaise(old, new_exceptions)]
              /\ changed' = (changed \/ HasNew(new_exceptions, old))
    /\ idx' = idx + 1
    /\ UNCHANGED << tree, function_names, pc, passes, runs, before,
                    reported_calls, output, file >>

\* The for loop is over and the while loop goes round again.
PassAgain ==
    /\ pc = "determine"
    /\ idx > Len(function_names)
    /\ LoopAgain(changed)
    /\ changed' = FALSE
    /\ idx' = 1
    /\ passes' = IF passes < PassCap THEN passes + 1 ELSE passes
    /\ UNCHANGED << tree, functions, function_names, pc, runs, before,
                    reported_calls, output, file >>

\* The while loop exits; analyze_file goes on to its reporting loop.
PassExit ==
    /\ pc = "determine"
    /\ idx > Len(function_names)
    /\ ~LoopAgain(changed)
    /\ pc' = "report"
    /\ idx' = 1
    /\ reported_calls' = NewCallKeys(reported_calls)
    /\ UNCHANGED << tree, functions, function_names, changed, passes, runs,
                    before, output, file >>

\* One turn of the loop of analyze_file (lines 63-72).
AnalyzeFunction ==
    /\ pc = "report"
    /\ idx <= Len(function_names)
    /\ LET r == analyze_function(tree, function_names[idx], functions,
                                 reported_calls, output)
       IN  /\ functions' = r.functions
           /\ reported_calls' = r.reported_calls
           /\ output' = r.out
    /\ idx' = idx + 1
    /\ UNCHANGED << tree, function_names, pc, changed, passes, runs, before,
                    file >>

\* analyze_file returns.
Finish ==
    /\ pc = "report"
    /\ idx > Len(function_names)
    /\ pc' = "done"
    /\ UNCHANGED << tree, functions, function_names, idx, changed, passes,
                    runs, before, reported_calls, output, file >>

Next ==
    \/ ParseAndIndex
    \/ DetermineStep
    \/ PassAgain
    \/ PassExit
    \/ AnalyzeFunction
    \/ Finish

Spec == Init /\ [][Next]_vars

\* The steps of determine_exceptions.  The program is sequential and runs
\* on: inside the loop, the step that can be taken is taken.
DetermineLoop == DetermineStep \/ PassAgain \/ PassExit

\* analyze_file up to the return of determine_exceptions.
NextDetermine ==
    \/ ParseAndIndex
    \/ DetermineStep
    \/ PassAgain
    \/ PassExit

FairSpec == Init /\ [][NextDetermine]_vars /\ WF_vars(DetermineLoop)

(***************************************************************************)
(* determine_exceptions applied a second time to the table it has just     *)
(* converged on, with the keys iterated in any order.                      *)
(***************************************************************************)
Redetermine ==
    /\ pc = "report"
    /\ idx = 1
    /\ runs = 1
    /\ pc' = "determine"
    /\ function_names' \in Orders(DOMAIN functions)
    /\ changed' = FALSE
    /\ passes' = 1
    /\ runs' = 2
    /\ before' = functions
    /\ UNCHANGED << tree, functions, idx, reported_calls, output, file >>

NextRerun ==
    \/ ParseAndIndex
    \/ DetermineStep
    \/ PassAgain
    \/ PassExit
    \/ Redetermine

SpecRerun == Init /\ [][NextRerun]_vars

(***************************************************************************)
(* main: the loop over the file paths (lines 17-28).  The error lines go   *)
(* to stderr, which is not kept; output is what has been printed to        *)
(* stdout for the file the loop is at (every line carries its file name).  *)
(***************************************************************************)
\* Where main's loop goes when it is done with the file it is at.
AfterFile == IF file < MaxFiles THEN "start" ELSE "exit"

\* read_to_string fails (lines 18, 24-26): an error line is written and
\* the loop goes on.
ReadFails ==
    /\ pc = "start"
    /\ file' = file + 1
    /\ pc' = AfterFile
    /\ UNCHANGED << tree, functions, function_names, idx, changed, passes,
                    runs, before, reported_calls, output >>

\* Parser::parse returns None and line 42 unwraps it.
ParseFails ==
    /\ pc = "start"
    /\ pc' = "panicked"
    /\ UNCHANGED << tree, functions, function_names, idx, changed, passes,
                    runs, before, reported_calls, output, file >>

\* The file parses to a tree in which a function definition has no name
\* field, and collect_functions unwraps it (line 95).
IndexPanics ==
    /\ pc = "start"
    /\ \E k \in TreeSizes : \E t \in TreesOfSize(k) :
          \E n \in 1..Len(t) :
              /\ t[n].kind = "function_definition"
              /\ tree' = WithChildren([t EXCEPT ![n].text = NoName])
    /\ NameUnwrapPanics(tree')
    /\ pc' = "panicked"
    /\ UNCHANGED << functions, function_names, idx, changed, passes, runs,
                    before, reported_calls, output, file >>

\* analyze_file has returned Ok (lines 20-23): its locals are gone and the
\* loop goes on.
NextFile ==
    /\ pc = "done"
    /\ file' = file + 1
    /\ pc' = AfterFile
    /\ tree' = << >>
    /\ functions' = EmptyTable
    /\ function_names' = << >>
    /\ idx' = 1
    /\ changed' = FALSE
    /\ passes' = 0
    /\ runs' = 0
    /\ before' = EmptyTable
    /\ reported_calls' = NewCallKeys(reported_calls)
    /\ output' = << >>

NextMain ==
    \/ ReadFails
    \/ ParseFails
    \/ IndexPanics
    \/ ParseAndIndex
    \/ DetermineStep
    \/ PassAgain
    \/ PassExit
    \/ AnalyzeFunction
    \/ Finish
    \/ NextFile

SpecMain == Init /\ [][NextMain]_vars

(***************************************************************************)
(* Vocabulary of the properties.                                           *)
(***************************************************************************)
NodesOf(t) == 1..Len(t)
FunctionKeys == DOMAIN functions
NamedKeys == FunctionKeys \ { ModuleName }
MayRaise(F) == functions[F].may_raise

\* n lies in the body the table holds for F.
InIndexedBody(F, n) == functions[F].node \in AncestorsOrSelf(tree, n)

\* The body the table holds for F contains a subscript / a call of G.
HasSubscript(F) ==
    \E n \in NodesOf(tree) : tree[n].kind = "subscript" /\ InIndexedBody(F, n)
HasCallTo(F, G) ==
    \E n \in NodesOf(tree) :
        tree[n].kind = "call" /\ tree[n].text = G /\ InIndexedBody(F, n)

NoTryAnywhere == \A n \in NodesOf(tree) : tree[n].kind # "try_statement"

\* determine_exceptions has returned / has just returned.
Converged == pc \in {"report", "done"}
JustConverged == pc = "report" /\ idx = 1

(***************************************************************************)
(* C1.  Monotonicity: no visit of a function by determine_exceptions       *)
(* removes a label from any function's may_raise; every set after a step   *)
(* is a superset of the set before it.                                     *)
(***************************************************************************)
C1_MayRaiseNeverShrinks ==
    [][ \A F \in FunctionKeys : MayRaise(F) \subseteq functions'[F].may_raise ]_vars

\* A function that got its label in an earlier pass is visited once more.
C1_Witness ==
    /\ pc = "determine"
    /\ passes >= 2
    /\ idx > 1
    /\ MayRaise(function_names[idx - 1]) # {}

(***************************************************************************)
(* C2.  Termination: whatever the tree, the call graph (recursive or not)  *)
(* and the visiting order, the while loop of determine_exceptions is       *)
(* eventually left.                                                        *)
(***************************************************************************)
C2_LoopTerminates == (pc = "determine") ~> (pc # "determine")

\* The loop has been left after a function that calls itself, directly or
\* through another function, got its label.
C2_Witness ==
    /\ pc = "report"
    /\ passes >= 2
    /\ \E F, G \in NamedKeys :
          HasCallTo(F, G) /\ HasCallTo(G, F) /\ MayRaise(F) # {}

(***************************************************************************)
(* C3.  Idempotence: a second run of determine_exceptions on the converged *)
(* table leaves every may_raise set as it was and needs one pass only.     *)
(***************************************************************************)
C3_SecondRunChangesNothing ==
    runs = 2 => ( /\ functions = before
                  /\ passes = 1
                  /\ ~changed )

\* The second run has ended on a table that holds labels.
C3_Witness ==
    /\ runs = 2
    /\ pc = "report"
    /\ \E F \in NamedKeys : MayRaise(F) # {}

(***************************************************************************)
(* C4.  Transitive propagation: in a file without any try statement, if C  *)
(* holds a subscript, B a call of C and A a call of B, then at convergence *)
(* KeyError is in may_raise of C, of B and of A, whatever the visiting     *)
(* order.                                                                  *)
(***************************************************************************)
C4_TransitivePropagation ==
    (Converged /\ NoTryAnywhere) =>
        \A C \in FunctionKeys : HasSubscript(C) =>
            \A B \in FunctionKeys : HasCallTo(B, C) =>
                \A A \in FunctionKeys : HasCallTo(A, B) =>
                    /\ KeyErrorLabel \in MayRaise(C)
                    /\ KeyErrorLabel \in MayRaise(B)
                    /\ KeyErrorLabel \in MayRaise(A)

\* Three different named functions, A visited before B before C, so that
\* the label needs a pass for each link of the chain.
C4_Witness ==
    /\ pc = "done"
    /\ NoTryAnywhere
    /\ \E i, j, k \in 1..Len(function_names) :
          LET A == function_names[i]
              B == function_names[j]
              C == function_names[k]
          IN  /\ i < j /\ j < k
              /\ {A, B, C} \subseteq NamedKeys
              /\ HasSubscript(C) /\ ~HasSubscript(B) /\ ~HasSubscript(A)
              /\ HasCallTo(B, C) /\ HasCallTo(A, B) /\ ~HasCallTo(A, C)
              /\ KeyErrorLabel \in MayRaise(A)

(***************************************************************************)
(* C5.  Order independence: when determine_exceptions returns, the         *)
(* may_raise sets are those of                                             *)
(* ConvergedSets(tree), the result of updating all functions at once from  *)
(* the empty sets until nothing changes.  No visiting order enters that    *)
(* definition, so any two orders end with the same sets.                   *)
(***************************************************************************)
RECURSIVE SimultaneousFrom(_, _)
SimultaneousFrom(t, table) ==
    LET next == [F \in DOMAIN table |->
                    [table[F] EXCEPT !.may_raise =
                        table[F].may_raise \cup NewExceptions(t, table, F)]]
    IN  IF next = table THEN table ELSE SimultaneousFrom(t, next)

ConvergedSets(t) ==
    LET table == SimultaneousFrom(t, BuildIndex(t))
    IN  [F \in DOMAIN table |-> table[F].may_raise]

C5_OrderIndependent ==
    JustConverged =>
        \E sets \in { ConvergedSets(tree) } :
            \A F \in FunctionKeys : MayRaise(F) = sets[F]

\* A run that needed more passes than the best order needs: the last
\* function of the order got a label that its callers, visited before it,
\* could only pick up in later passes.
C5_Witness ==
    /\ JustConverged
    /\ passes >= 3
    /\ \A F \in FunctionKeys : MayRaise(F) # {}

(***************************************************************************)
(* Vocabulary of the reporter's properties.                                *)
(***************************************************************************)
Subscripts == { n \in NodesOf(tree) : tree[n].kind = "subscript" }

\* Some try statement on n's ancestor chain has, among its own children,
\* an except clause of one of the given type texts.
HandlerOnChain(n, types) ==
    \E a \in AncestorsOrSelf(tree, n) :
        /\ tree[a].kind = "try_statement"
        /\ \E c \in NodesOf(tree) :
              /\ tree[c].parent = a
              /\ tree[c].kind = "except_clause"
              /\ tree[c].text \in types

Guarded(n) == HandlerOnChain(n, { NoType, "KeyError", "Exception" })

\* n lies inside some function definition / inside none.
InNamedFunction(n) ==
    \E a \in AncestorsOrSelf(tree, n) : tree[a].kind = "function_definition"
TopLevel(n) == ~InNamedFunction(n)

Warnings == { output[i] : i \in 1..Len(output) }
LocalWarnings == { w \in Warnings : w.msg = "local" }
CallWarnings == { w \in Warnings : w.msg = "call" }

\* A local warning was printed for n's line / for n's line and function F.
Reported(n) == \E w \in LocalWarnings : w.line = tree[n].line
ReportedIn(n, F) ==
    \E w \in LocalWarnings : w.line = tree[n].line /\ w.function = F

(***************************************************************************)
(* C6.  Guard correctness, as claimed: when the analysis of the file is    *)
(* over, a subscript inside a function definition has a local warning if   *)
(* and only if no try statement on its ancestor chain has an except clause *)
(* that is bare or has the type text KeyError or Exception.                *)
(* This fails for a subscript in a definition that a later definition of   *)
(* the same name has replaced in the table: it is never visited.           *)
(***************************************************************************)
C6_GuardCorrectness_AsClaimed ==
    pc = "done" =>
        \A n \in Subscripts : InNamedFunction(n) => (Reported(n) <=> ~Guarded(n))

(***************************************************************************)
(* C6, amended.  When the analysis of the file is over, a subscript inside *)
(* the body that the function table holds for a named function F has a     *)
(* local warning naming F if and only if no try statement on its ancestor  *)
(* chain has an except clause that is bare or has the type text KeyError   *)
(* or Exception.                                                           *)
(***************************************************************************)
C6_GuardCorrectness ==
    pc = "done" =>
        \A F \in NamedKeys : \A n \in Subscripts :
            InIndexedBody(F, n) => (ReportedIn(n, F) <=> ~Guarded(n))

\* A reported subscript whose only handler is except ValueError.
C6_Witness ==
    /\ pc = "done"
    /\ \E F \in NamedKeys : \E n \in Subscripts :
          /\ InIndexedBody(F, n)
          /\ HandlerOnChain(n, { "ValueError" })
          /\ ~Guarded(n)
          /\ ReportedIn(n, F)

(***************************************************************************)
(* C7.  Call-site suppression: when the analysis of the file is over, no   *)
(* call warning names a callee G whose reported_in_function flag is set,   *)
(* that is, a G with an unguarded subscript of its own.                    *)
(***************************************************************************)
C7_CallSiteSuppression ==
    pc = "done" =>
        \A G \in FunctionKeys :
            functions[G].reported_in_function =>
                ~ \E w \in CallWarnings : w.callee = G

(***************************************************************************)
(* C8.  Scenario 1: get holds an unguarded subscript, caller calls get, no *)
(* try statement anywhere.  The analysis prints one warning, the local     *)
(* warning for get, and no call warning.                                   *)
(***************************************************************************)
Scenario1Tree ==
    WithChildren(RootOnly \o ChainFunction(1, 2, NoGuard, FALSE, 2, 1)
                          \o ChainFunction(2, 2, NoGuard, FALSE, 4, 3))

C8_Scenario1 ==
    (pc = "done" /\ tree = Scenario1Tree)
        => output = << LocalWarning(3, "get") >>

(***************************************************************************)
(* C9.  Scenario 2: the subscript of get is in try/except KeyError and     *)
(* caller calls get.  Every may_raise set stays empty and nothing is       *)
(* printed, in every state of the analysis.                                *)
(***************************************************************************)
Scenario2Tree ==
    WithChildren(RootOnly \o ChainFunction(1, 2, "KeyError", FALSE, 2, 1)
                          \o ChainFunction(2, 2, NoGuard, FALSE, 6, 5))

C9_Scenario2 ==
    tree = Scenario2Tree =>
        /\ \A F \in FunctionKeys : MayRaise(F) = {}
        /\ output = << >>

\* The analysis of the scenario's file is over.
C9_Witness ==
    /\ tree = Scenario2Tree
    /\ FunctionKeys = { "get", "caller", ModuleName }
    /\ pc = "done"

(***************************************************************************)
(* C10.  Module asymmetry: an unguarded subscript outside every function   *)
(* definition puts KeyError into may_raise of the module entry by the time *)
(* determine_exceptions returns, and no local warning ever names the       *)
(* module entry.                                                           *)
(***************************************************************************)
C10_ModuleAsymmetry ==
    /\ \A w \in LocalWarnings : w.function # ModuleName
    /\ ( Converged /\ \E n \in Subscripts : TopLevel(n) /\ ~Guarded(n) )
          => KeyErrorLabel \in MayRaise(ModuleName)

\* The reporter has visited a module entry that owes its label to a
\* top-level subscript, and has set its flag without printing for it.
C10_Witness ==
    /\ pc = "done"
    /\ \E n \in Subscripts : TopLevel(n) /\ ~Guarded(n)
    /\ \A n \in Subscripts : TopLevel(n)
    /\ KeyErrorLabel \in MayRaise(ModuleName)
    /\ functions[ModuleName].reported_in_function
    /\ LocalWarnings = {}

(***************************************************************************)
(* Further vocabulary of the reporter's properties.                        *)
(***************************************************************************)
Calls == { n \in NodesOf(tree) : tree[n].kind = "call" }

\* The positions of the output that hold a call warning / a local warning.
CallPositions == { i \in 1..Len(output) : output[i].msg = "call" }
LocalPositions == { i \in 1..Len(output) : output[i].msg = "local" }

\* The functions of the table whose body holds an unguarded call of G on
\* line l: the functions for which that call is collected.
CollectorsOf(l, G) ==
    { F \in FunctionKeys :
        \E n \in Calls : /\ tree[n].line = l
                         /\ tree[n].text = G
                         /\ InIndexedBody(F, n)
                         /\ ~Guarded(n) }

(***************************************************************************)
(* C11.  Call-site warnings are deduplicated by (line, callee): in every   *)
(* state of a file's analysis the output holds at most one call warning    *)
(* for a given line and a given callee, also when the call is collected    *)
(* for several functions (its function, the outer ones, the module entry). *)
(***************************************************************************)
C11_CallWarningsDeduplicated ==
    \A i, j \in CallPositions :
        ( /\ output[i].line = output[j].line
          /\ output[i].callee = output[j].callee ) => i = j

\* A call warning has been printed for a call that two functions of the
\* table collect, and the callee's flag is down at the end: only the key
\* kept the second of them from printing it again.
C11_Witness ==
    /\ pc = "done"
    /\ \E w \in CallWarnings :
          /\ ~functions[w.callee].reported_in_function
          /\ Cardinality(CollectorsOf(w.line, w.callee)) >= 2

(***************************************************************************)
(* C12.  Deduplication for both kinds, as claimed: the output of a file's  *)
(* analysis never holds the same diagnostic twice, be it a local warning   *)
(* or a call warning.                                                      *)
(* This fails for local warnings: the local pass prints one line for every *)
(* unguarded subscript node, and two such nodes of one function may stand  *)
(* on the same source line.                                                *)
(***************************************************************************)
C12_NoDiagnosticTwice ==
    \A i, j \in 1..Len(output) : output[i] = output[j] => i = j

\* The unguarded subscripts on line l of the body the table holds for F.
UnguardedAccessesAt(l, F) ==
    { n \in Subscripts : /\ tree[n].line = l
                         /\ InIndexedBody(F, n)
                         /\ ~Guarded(n) }

Lines == { tree[n].line : n \in NodesOf(tree) }

(***************************************************************************)
(* C12, amended.  The output never holds the same call warning twice.  A   *)
(* local warning for line l and function F is in the finished output more  *)
(* than once if and only if the body the table holds for F has two or more *)
(* unguarded subscripts on line l.                                         *)
(***************************************************************************)
C12_RepeatsOnlyForSharedLines ==
    /\ \A i, j \in CallPositions : output[i] = output[j] => i = j
    /\ pc = "done" =>
          \A F \in NamedKeys : \A l \in Lines :
              ( \E i, j \in LocalPositions :
                    /\ i # j
                    /\ output[i] = LocalWarning(l, F)
                    /\ output[j] = LocalWarning(l, F) )
              <=> Cardinality(UnguardedAccessesAt(l, F)) >= 2

\* A function with two unguarded subscripts on one line has had the same
\* local warning printed twice.
C12_Witness ==
    /\ pc = "done"
    /\ \E F \in NamedKeys : \E l \in Lines :
          /\ Cardinality(UnguardedAccessesAt(l, F)) = 2
          /\ Cardinality({ i \in LocalPositions :
                              output[i] = LocalWarning(l, F) }) = 2

(***************************************************************************)
(* C13.  The visiting order affects only the ordering of the diagnostics:  *)
(* whatever order the reporter had taken over the converged table, the set *)
(* of diagnostics (line, message, callee and function of each) would be    *)
(* the set that the finished analysis has printed.                         *)
(***************************************************************************)
\* The converged table as the reporter finds it, all flags down.
ConvergedTable ==
    [F \in FunctionKeys |->
        [functions[F] EXCEPT !.reported_in_function = FALSE]]

\* The loop of analyze_file run over the keys in the given order.
RECURSIVE ReportInOrder(_, _, _, _)
ReportInOrder(t, order, i, st) ==
    IF i > Len(order) THEN st
    ELSE ReportInOrder(t, order, i + 1,
             analyze_function(t, order[i], st.functions,
                              st.reported_calls, st.out))

DiagnosticsInOrder(order) ==
    LET st == ReportInOrder(tree, order, 1,
                  [functions |-> ConvergedTable,
                   reported_calls |-> {},
                   out |-> << >>])
    IN  { st.out[i] : i \in 1..Len(st.out) }

C13_OrderAffectsOrderingOnly ==
    pc = "done" =>
        \A order \in Orders(FunctionKeys) :
            DiagnosticsInOrder(order) = Warnings

(***************************************************************************)
(* C14.  Every per-file failure is isolated to its file: a file that       *)
(* cannot be read, does not parse, or has a function definition without a  *)
(* name is reported or abandoned alone, and main still goes through every  *)
(* file path after it.  So whenever the process has ended, no file path    *)
(* after the one the loop was at is left unprocessed.                      *)
(***************************************************************************)
Ended == pc \in {"exit", "panicked"}

C14_FailuresIsolated == Ended => file >= MaxFiles

(***************************************************************************)
(* C15.  No analysis state crosses file boundaries.  Whatever files main   *)
(* has been through before: the analysis of a file starts from the index   *)
(* built from that file's tree alone, with empty may_raise sets and all    *)
(* flags down; its reporter starts with an empty set of call keys; and the *)
(* diagnostics printed for the file are those that its tree and its key    *)
(* order give when analysed from nothing.                                  *)
(***************************************************************************)
\* The diagnostics of a tree analysed on its own, the keys visited in the
\* given order.
DiagnosticsAlone(t, order) ==
    ReportInOrder(t, order, 1,
        [functions |-> SimultaneousFrom(t, BuildIndex(t)),
         reported_calls |-> {},
         out |-> << >>]).out

C15_NoStateCrossesFiles ==
    /\ (pc = "determine" /\ passes = 1 /\ idx = 1)
          => functions = BuildIndex(tree)
    /\ JustConverged
          => /\ reported_calls = {}
             /\ \A F \in FunctionKeys : ~functions[F].reported_in_function
    /\ pc = "done" => output = DiagnosticsAlone(tree, function_names)

\* The analysis of a second file has ended with warnings of both kinds.
C15_Witness ==
    /\ file = 2
    /\ pc = "done"
    /\ CallWarnings # {}
    /\ LocalWarnings # {}

(***************************************************************************)
(* C16.  Least fixed point, no spurious labels: when determine_exceptions  *)
(* returns, KeyError is in may_raise(F) if and only if the body the table  *)
(* holds for F has an unguarded subscript, or a chain of unguarded call    *)
(* sites, each naming a function of the table, leads from F to a function  *)
(* whose body has one; and no set holds anything else.  A label does not   *)
(* pass through a guarded call site.                                       *)
(***************************************************************************)
RaisesLocally(F) ==
    \E n \in Subscripts : InIndexedBody(F, n) /\ ~Guarded(n)

CallsUnguarded(F, G) ==
    \E n \in Calls : tree[n].text = G /\ InIndexedBody(F, n) /\ ~Guarded(n)

\* S with all functions from which a chain of unguarded call sites leads
\* into S.
RECURSIVE WithCallers(_)
WithCallers(S) ==
    LET more == { F \in FunctionKeys : \E G \in S : CallsUnguarded(F, G) }
    IN  IF more \subseteq S THEN S ELSE WithCallers(S \cup more)

Raisers == WithCallers({ F \in FunctionKeys : RaisesLocally(F) })

C16_LeastFixedPoint ==
    JustConverged =>
        \E raisers \in { Raisers } :
            \A F \in FunctionKeys :
                MayRaise(F) = IF F \in raisers THEN { KeyErrorLabel } ELSE {}

\* H has an unguarded subscript, G has none and owes its label to an
\* unguarded call of H, and F, which calls G inside a guard only, has
\* stayed without a label.
C16_Witness ==
    /\ JustConverged
    /\ \E F, G, H \in NamedKeys :
          /\ RaisesLocally(H)
          /\ ~RaisesLocally(G) /\ CallsUnguarded(G, H) /\ MayRaise(G) # {}
          /\ HasCallTo(F, G) /\ ~CallsUnguarded(F, G) /\ MayRaise(F) = {}

(***************************************************************************)
(* C17.  Index construction: once the index is built, the table has one    *)
(* entry for every function name found anywhere in the tree, nested        *)
(* definitions included, and one for the module name, and no other; the    *)
(* module entry's body is the root; the body of a name's entry is the      *)
(* definition of that name that comes last in pre-order; and duplicate     *)
(* names end nothing: the analysis goes on.                                *)
(***************************************************************************)
Definitions == { n \in NodesOf(tree) : tree[n].kind = "function_definition" }
DefinitionsOf(x) == { n \in Definitions : tree[n].text = x }

\* Nodes are numbered in pre-order, so the last one visited is the largest.
LastOf(S) == CHOOSE n \in S : \A m \in S : m <= n

Indexed == pc \in {"determine", "report", "done"}

C17_IndexConstruction ==
    Indexed =>
        /\ FunctionKeys = { tree[n].text : n \in Definitions } \cup { ModuleName }
        /\ functions[ModuleName].node = 1
        /\ \A x \in NamedKeys : functions[x].node = LastOf(DefinitionsOf(x))

\* A name defined twice, the second time inside the first definition; the
\* table holds the inner one and the analysis has run to its end.
C17_Witness ==
    /\ pc = "done"
    /\ \E x \in NamedKeys :
          /\ Cardinality(DefinitionsOf(x)) >= 2
          /\ tree[functions[x].node].parent \in DefinitionsOf(x)

(***************************************************************************)
(* C18.  Lexical containment: once determine_exceptions has returned,      *)
(* may_raise of every function of the table is a subset of may_raise of    *)
(* the module entry, and may_raise(inner) is a subset of may_raise(outer)  *)
(* whenever the definition the table holds for inner lies in the body the  *)
(* table holds for outer.                                                  *)
(***************************************************************************)
C18_LexicalContainment ==
    Converged =>
        /\ \A F \in FunctionKeys : MayRaise(F) \subseteq MayRaise(ModuleName)
        /\ \A inner, outer \in FunctionKeys :
              InIndexedBody(outer, functions[inner].node)
                  => MayRaise(inner) \subseteq MayRaise(outer)

\* A named function has its label only from the subscript of a function
\* defined inside it, and the module entry has it from there as well.
C18_Witness ==
    /\ Converged
    /\ \E inner, outer \in NamedKeys :
          /\ inner # outer
          /\ InIndexedBody(outer, functions[inner].node)
          /\ \A n \in Subscripts : InIndexedBody(inner, n)
          /\ Calls = {}
          /\ MayRaise(inner) = { KeyErrorLabel }
          /\ MayRaise(outer) = { KeyErrorLabel }
          /\ MayRaise(ModuleName) = { KeyErrorLabel }

(***************************************************************************)
(* C19.  Guarding goes by ancestry alone.  A subscript or a call that      *)
(* stands in an except clause or in another clause (else, finally) of a    *)
(* try statement with a matching handler (bare, KeyError or Exception) is  *)
(* guarded like one in the try body: no warning is printed for its line,   *)
(* and a function whose body has subscripts and calls in such places only  *)
(* gets no label.                                                          *)
(***************************************************************************)
\* The try statement a has an except clause that is bare or has the type
\* text KeyError or Exception.
HasMatchingHandler(a) ==
    /\ tree[a].kind = "try_statement"
    /\ \E c \in NodesOf(tree) :
          /\ tree[c].parent = a
          /\ tree[c].kind = "except_clause"
          /\ tree[c].text \in { NoType, "KeyError", "Exception" }

\* n stands in an except clause or another clause of such a try statement.
InClauseOfGuardingTry(n) ==
    \E c \in AncestorsOrSelf(tree, n) :
        /\ tree[c].kind \in {"except_clause", "block"}
        /\ HasMatchingHandler(tree[c].parent)

C19_GuardedByAncestry ==
    /\ pc = "done" =>
          \A n \in Subscripts \cup Calls :
              InClauseOfGuardingTry(n)
                  => \A w \in Warnings : w.line # tree[n].line
    /\ Converged =>
          \A F \in FunctionKeys :
              ( \A n \in Subscripts \cup Calls :
                    InIndexedBody(F, n) => InClauseOfGuardingTry(n) )
                  => MayRaise(F) = {}

\* A named function with a subscript, and a call of a function that has a
\* label, in such a clause: the analysis has ended, nothing was printed
\* for their lines and the function has no label.
C19_Witness ==
    /\ pc = "done"
    /\ \E F \in NamedKeys :
          /\ MayRaise(F) = {}
          /\ \E n \in Subscripts :
                /\ InIndexedBody(F, n)
                /\ InClauseOfGuardingTry(n)
                /\ \A w \in Warnings : w.line # tree[n].line
          /\ \E n \in Calls :
                /\ InIndexedBody(F, n)
                /\ InClauseOfGuardingTry(n)
                /\ tree[n].text \in FunctionKeys
                /\ MayRaise(tree[n].text) # {}
                /\ \A w \in Warnings : w.line # tree[n].line

(***************************************************************************)
(* C20.  Nested-function attribution: in the finished output every         *)
(* unguarded subscript has one local warning for each named function of    *)
(* the table whose body holds it, the enclosing functions included, and    *)
(* there are no other local warnings: for every line l and named function  *)
(* F the output has as many local warnings for l and F as F's body has     *)
(* unguarded subscripts on l.  The visiting order does not enter.          *)
(***************************************************************************)
LocalWarningsFor(l, F) ==
    { i \in LocalPositions : output[i] = LocalWarning(l, F) }

C20_NestedAttribution ==
    pc = "done" =>
        /\ \A F \in NamedKeys : \A l \in Lines :
              Cardinality(LocalWarningsFor(l, F))
                  = Cardinality(UnguardedAccessesAt(l, F))
        /\ \A i \in LocalPositions :
              output[i].function \in NamedKeys /\ output[i].line \in Lines

\* One unguarded subscript in a function defined inside another one: a
\* warning naming the inner and a warning naming the outer function, both
\* for the subscript's line.
C20_Witness ==
    /\ pc = "done"
    /\ \E inner, outer \in NamedKeys : \E n \in Subscripts :
          /\ inner # outer
          /\ InIndexedBody(outer, functions[inner].node)
          /\ InIndexedBody(inner, n)
          /\ Subscripts = { n }
          /\ Cardinality(LocalWarningsFor(tree[n].line, inner)) = 1
          /\ Cardinality(LocalWarningsFor(tree[n].line, outer)) = 1
          /\ Len(output) = 2

====
